---- MODULE Spec2Model ----
(***************************************************************************)
(* Model of latex_ocr (src/main.rs): load the configuration, validate the  *)
(* API key, pick the most recently modified image of a directory, ask the  *)
(* user, send the image to the vision API, copy the answer to the          *)
(* clipboard, and notify the user.                                         *)
(*                                                                         *)
(* Strings are sequences of string fragments (single characters where the  *)
(* code looks at characters); Option<T> is a sequence of length 0 (None)   *)
(* or 1 (Some); Result<String, E> is a record [ok, val, err].              *)
(***************************************************************************)
EXTENDS Integers, Sequences, FiniteSets, TLC

VARIABLES
    pc,                 \* position of main
    config,             \* Option<AppConfig>: main's `config`
    expanded_path,      \* main's `expanded_path`
    read_dir_result,    \* "none" | "ok" | "err": outcome of fs::read_dir
    dir_entries,        \* the items the ReadDir iterator yielded to the scan just made
    most_recent_image,  \* Option<DirEntry>: main's `most_recent_image`
    image_read,         \* "none" | "ok" | "err": outcome of fs::read
    dialogs,            \* messages shown by message_box_yes_no, in order
    choice,             \* "none" | "Yes" | "No": main's `choice`
    requests,           \* requests sent to the vision API, in order
    response,           \* Option: the HTTP response received
    api_result,         \* Option<Result<String, _>>: call_claude_with_image's value
    clipboard,          \* texts handed to set_contents that replaced the clipboard
    clipboard_result,   \* "none" | "ok" | "err": copy_to_clipboard's value
    notifications       \* calls of send_notification, in order

vars == <<pc, config, expanded_path, read_dir_result, dir_entries,
          most_recent_image, image_read, dialogs, choice, requests, response,
          api_result, clipboard, clipboard_result, notifications>>

---------------------------------------------------------------------------
(* Bounds of the model *)

MaxEntries == 2     \* directory listings hold at most this many items
MaxTime == 2        \* modification times are 1..MaxTime
MaxContent == 2     \* the response's content array holds at most this many items

---------------------------------------------------------------------------
(* Strings *)

Whitespace == {" ", "\t", "\n"}

RECURSIVE TrimStart(_)
TrimStart(s) ==
    IF s # <<>> /\ Head(s) \in Whitespace THEN TrimStart(Tail(s)) ELSE s

RECURSIVE TrimEnd(_)
TrimEnd(s) ==
    IF s # <<>> /\ s[Len(s)] \in Whitespace
    THEN TrimEnd(SubSeq(s, 1, Len(s) - 1))
    ELSE s

\* The key is tested as loaded, without trimming
TrimIdentity(s) == s

\* str::trim
Trim(s) == TrimEnd(TrimStart(s))

LowerChar(c) ==
    CASE c = "P" -> "p"
      [] c = "N" -> "n"
      [] c = "G" -> "g"
      [] c = "J" -> "j"
      [] c = "E" -> "e"
      [] c = "T" -> "t"
      [] c = "X" -> "x"
      [] OTHER   -> c

\* str::to_lowercase
ToLowercase(s) == [i \in DOMAIN s |-> LowerChar(s[i])]

PositionsOf(c, s) == {i \in DOMAIN s : s[i] = c}

Max(S) == CHOOSE x \in S : \A y \in S : y <= x

\* Path::extension of a file name: None without a '.', None when the only
\* '.' is the leading one, else the part after the last '.'
Extension(name) ==
    LET dots == PositionsOf(".", name)
    IN  IF dots = {} \/ Max(dots) = 1
        THEN <<>>
        ELSE <<SubSeq(name, Max(dots) + 1, Len(name))>>

---------------------------------------------------------------------------
(* Configuration: AppConfig and AppConfig::load *)

DefaultPrompt == <<"p">>
DefaultModel == <<"m">>
DefaultImageDirectory == <<"~", "/", "D">>
HomePath == <<"/", "h">>

\* What the home directory lookup can yield: None or Some(path)
HomeDirs == {<<>>, <<HomePath>>}

\* impl Default for AppConfig, and the default file written by load
DefaultConfig ==
    [api_key |-> <<>>, image_directory |-> DefaultImageDirectory,
     model |-> DefaultModel, prompt |-> DefaultPrompt]

ApiKeys == {<<>>, <<" ">>, <<" ", "\t">>, <<"k">>, <<" ", "k", "\n">>}
ImageDirectories == {DefaultImageDirectory, <<"/", "i">>}

AppConfig ==
    [api_key : ApiKeys, image_directory : ImageDirectories,
     model : {DefaultModel}, prompt : {DefaultPrompt}]

\* What is at config_path when load starts
ConfigFiles ==
    [state : {"absent", "malformed", "incomplete"}, cfg : {DefaultConfig}]
    \cup [state : {"valid"}, cfg : AppConfig]

Ok(v) == [ok |-> TRUE, val |-> v, err |-> <<>>]
Err(e) == [ok |-> FALSE, val |-> <<>>, err |-> e]

\* AppConfig::load: a missing file is replaced by the default one (the write
\* may fail and is ignored), then the file is merged and deserialized
Load(file, writeOk) ==
    LET onDisk == IF file.state = "absent" /\ writeOk
                  THEN [state |-> "valid", cfg |-> DefaultConfig]
                  ELSE file
    IN  CASE onDisk.state = "valid"      -> [ok |-> TRUE, cfg |-> <<onDisk.cfg>>, err |-> <<>>]
          [] onDisk.state = "absent"     -> [ok |-> FALSE, cfg |-> <<>>, err |-> <<"configuration file not found">>]
          [] onDisk.state = "malformed"  -> [ok |-> FALSE, cfg |-> <<>>, err |-> <<"invalid TOML">>]
          [] onDisk.state = "incomplete" -> [ok |-> FALSE, cfg |-> <<>>, err |-> <<"missing field">>]

\* shellexpand::tilde: a leading "~" alone or before "/" becomes the home
\* directory when there is one
Tilde(path, home) ==
    IF /\ home # <<>>
       /\ path # <<>>
       /\ Head(path) = "~"
       /\ (Len(path) = 1 \/ path[2] = "/")
    THEN home[1] \o Tail(path)
    ELSE path

\* AppConfig::image_directory_expanded
ImageDirectoryExpanded(cfg, home) == Tilde(cfg.image_directory, home)

---------------------------------------------------------------------------
(* Directory listing and selection of the most recent image *)

FileNames ==
    { <<"a", ".", "p", "n", "g">>,
      <<"b", ".", "J", "P", "G">>,
      <<"c", ".", "j", "p", "e", "g">>,
      <<"d", ".", "t", "x", "t">>,
      <<"e">>,
      <<".", "p", "n", "g">> }

\* An item of the ReadDir iterator: Ok(DirEntry) or Err
ErrEntry == [ok |-> FALSE, name |-> <<>>, mtime |-> 0, metaOk |-> FALSE]
OkEntries == [ok : {TRUE}, name : FileNames, mtime : 1..MaxTime, metaOk : BOOLEAN]
Entries == OkEntries \cup {ErrEntry}

\* A directory holds each name once
Listings ==
    UNION { { l \in [1..n -> Entries] :
                \A i, j \in 1..n : (i # j /\ l[i].ok /\ l[j].ok) => l[i].name # l[j].name }
            : n \in 0..MaxEntries }

ImageExtensions == { <<"p", "n", "g">>, <<"j", "p", "g">>, <<"j", "p", "e", "g">> }

\* The closure given to filter
IsImage(entry) ==
    LET ext == Extension(entry.name)
    IN  ext # <<>> /\ ToLowercase(ext[1]) \in ImageExtensions

IsOk(entry) == entry.ok

\* filter_map(|entry| entry.ok()).filter(...)
Candidates(listing) == SelectSeq(SelectSeq(listing, IsOk), IsImage)

\* entry.metadata().unwrap().modified().unwrap() panics on some candidate
MetadataPanics(cands) == \E i \in DOMAIN cands : ~cands[i].metaOk

RECURSIVE MinByKey(_)
MinByKey(cands) ==
    IF cands = <<>> THEN <<>>
    ELSE LET rest == MinByKey(Tail(cands))
         IN  IF rest = <<>> \/ Head(cands).mtime < rest[1].mtime
             THEN <<Head(cands)>>
             ELSE rest

\* Iterator::max_by_key: None when empty; of several maximal items the last
RECURSIVE MaxByKey(_)
MaxByKey(cands) ==
    IF cands = <<>> THEN <<>>
    ELSE LET rest == MaxByKey(Tail(cands))
         IN  IF rest = <<>> \/ Head(cands).mtime > rest[1].mtime
             THEN <<Head(cands)>>
             ELSE rest

---------------------------------------------------------------------------
(* The vision API: call_claude_with_image *)

MaxTokens == 1024

RECURSIVE LastSlash(_)
LastSlash(path) ==
    IF path = <<>> THEN 0
    ELSE IF path[Len(path)] = "/" THEN Len(path)
    ELSE LastSlash(SubSeq(path, 1, Len(path) - 1))

\* Path::file_name: the last component
FileName(path) == SubSeq(path, LastSlash(path) + 1, Len(path))

\* Path::join of a directory and an entry's file name
Join(dir, name) ==
    IF dir # <<>> /\ dir[Len(dir)] = "/" THEN dir \o name ELSE dir \o <<"/">> \o name

\* The media type is derived from the file extension alone
MediaType(image_path) ==
    LET ext == Extension(FileName(image_path))
    IN  IF ext = <<>> THEN "image/jpeg"
        ELSE CASE ToLowercase(ext[1]) = <<"p", "n", "g">> -> "image/png"
               [] ToLowercase(ext[1]) \in { <<"j", "p", "g">>, <<"j", "p", "e", "g">> } -> "image/jpeg"
               [] OTHER -> "image/jpeg"

\* The json! payload and the x-api-key header
Request(api_key, model, image_path, prompt) ==
    [api_key |-> api_key, model |-> model, max_tokens |-> MaxTokens,
     media_type |-> MediaType(image_path), image |-> image_path, prompt |-> prompt]

\* JSON values of the response body, as far as the code reads them
Texts == { <<>>, <<"A">>, <<"B">> }
AbsentText == [tag |-> "absent", s |-> <<>>]
TextFields == [tag : {"str"}, s : Texts] \cup {[tag |-> "num", s |-> <<>>], AbsentText}
Items == [kind : {"object"}, text : TextFields] \cup {[kind |-> "string", text |-> AbsentText]}
ItemArrays == UNION { [1..n -> Items] : n \in 0..MaxContent }
NoContent == [tag |-> "absent", items |-> <<>>]
Contents ==
    [tag : {"array"}, items : ItemArrays]
    \cup {[tag |-> t, items |-> <<>>] : t \in {"absent", "null", "str"}}
Bodies == [json : {TRUE}, content : Contents] \cup {[json |-> FALSE, content |-> NoContent]}

SuccessStatuses == {200, 201}
FailureStatuses == {301, 429, 500}

\* StatusCode::is_success
IsSuccess(status) == 200 <= status /\ status < 300

Responses ==
    [status : SuccessStatuses, body : Bodies]
    \cup [status : FailureStatuses,
          body : {[json |-> TRUE, content |-> NoContent],
                  [json |-> TRUE, content |-> [tag |-> "array",
                      items |-> <<[kind |-> "object", text |-> [tag |-> "str", s |-> <<"A">>]]>>]]}]

\* What send().await yields: Ok(response), or a transport error (a timeout included)
TransportErrors == {"error sending request", "operation timed out"}
NetworkOutcomes ==
    [sent : {TRUE}, response : {<<r>> : r \in Responses}, error : {""}]
    \cup [sent : {FALSE}, response : {<<>>}, error : TransportErrors]

Digit(d) ==
    CASE d = 0 -> "0" [] d = 1 -> "1" [] d = 2 -> "2" [] d = 3 -> "3" [] d = 4 -> "4"
      [] d = 5 -> "5" [] d = 6 -> "6" [] d = 7 -> "7" [] d = 8 -> "8" [] d = 9 -> "9"

\* Decimal digits of a natural number
RECURSIVE Digits(_)
Digits(n) == IF n < 10 THEN <<Digit(n)>> ELSE Digits(n \div 10) \o <<Digit(n % 10)>>

CanonicalReason(status) ==
    CASE status = 200 -> "OK"
      [] status = 201 -> "Created"
      [] status = 301 -> "Moved Permanently"
      [] status = 429 -> "Too Many Requests"
      [] status = 500 -> "Internal Server Error"
      [] OTHER -> "<unknown status code>"

\* Display of StatusCode: the code, a space, the canonical reason
StatusDisplay(status) == Digits(status) \o <<" ", CanonicalReason(status)>>

\* The message names no status
ApiErrorMessageNoStatus(status) == <<"API request failed">>

\* format!("API request failed with status: {}", response.status())
ApiErrorMessage(status) == <<"API request failed with status: ">> \o StatusDisplay(status)

\* item["text"]: Null unless the item is an object with that key
IndexText(item) == IF item.kind = "object" THEN item.text ELSE AbsentText

\* Value::as_str
AsStr(v) == IF v.tag = "str" THEN <<v.s>> ELSE <<>>

\* Each text is put in front of the result
RECURSIVE PushTextsReversed(_, _)
PushTextsReversed(result, items) ==
    IF items = <<>> THEN result
    ELSE LET text == AsStr(IndexText(Head(items)))
         IN  PushTextsReversed(IF text # <<>> THEN text[1] \o result ELSE result, Tail(items))

\* The for loop over content: push_str of every item's text that is a string
RECURSIVE PushTexts(_, _)
PushTexts(result, items) ==
    IF items = <<>> THEN result
    ELSE LET text == AsStr(IndexText(Head(items)))
         IN  PushTexts(IF text # <<>> THEN result \o text[1] ELSE result, Tail(items))

\* The value of call_claude_with_image for what the network yields
CallClaudeWithImage(outcome) ==
    IF ~outcome.sent THEN Err(<<outcome.error>>)
    ELSE LET r == outcome.response[1]
         IN  IF IsSuccess(r.status)
             THEN IF ~r.body.json THEN Err(<<"error decoding response body">>)
                  ELSE IF r.body.content.tag = "array"
                       THEN Ok(PushTexts(<<>>, r.body.content.items))
                       ELSE Err(<<"Invalid response format">>)
             ELSE Err(ApiErrorMessage(r.status))

\* What copy_to_clipboard can meet
ClipboardOutcomes == {"ok", "no_provider", "set_failed"}

\* The Display of copy_to_clipboard's error
ClipboardError(outcome) ==
    IF outcome = "no_provider" THEN <<"clipboard unavailable">> ELSE <<"set_contents failed">>

---------------------------------------------------------------------------
(* main *)

Terminal == {"Done", "Panicked"}

Init ==
    /\ pc = "LoadingConfig"
    /\ config = <<>>
    /\ expanded_path = <<>>
    /\ read_dir_result = "none"
    /\ dir_entries = <<>>
    /\ most_recent_image = <<>>
    /\ image_read = "none"
    /\ dialogs = <<>>
    /\ choice = "none"
    /\ requests = <<>>
    /\ response = <<>>
    /\ api_result = <<>>
    /\ clipboard = <<>>
    /\ clipboard_result = "none"
    /\ notifications = <<>>

\* send_notification(title, None, body, sound).unwrap(), after which main
\* returns; a notification that cannot be delivered panics
SendNotification(title, body, sound, delivered) ==
    /\ notifications' = Append(notifications, [title |-> title, body |-> body, sound |-> sound])
    /\ pc' = IF delivered THEN "Done" ELSE "Panicked"

\* let config = match AppConfig::load() { ... }
LoadConfig ==
    /\ pc = "LoadingConfig"
    /\ \E file \in ConfigFiles, writeOk, delivered \in BOOLEAN :
         LET r == Load(file, writeOk)
         IN  /\ config' = r.cfg
             /\ IF r.ok
                THEN pc' = "ValidatingKey" /\ UNCHANGED notifications
                ELSE SendNotification("Configuration Error",
                                      <<"Error loading configuration: ">> \o r.err,
                                      "Blow", delivered)
    /\ UNCHANGED <<expanded_path, read_dir_result, dir_entries, most_recent_image,
                   image_read, dialogs, choice, requests, response, api_result,
                   clipboard, clipboard_result>>

ApiKeyIsEmpty(cfg) == Trim(cfg.api_key) = <<>>

\* if config.api_key.trim().is_empty() { ... return; }
ValidateKey ==
    /\ pc = "ValidatingKey"
    /\ \E delivered \in BOOLEAN :
         IF ApiKeyIsEmpty(config[1])
         THEN SendNotification("Configuration Error",
                               <<"API key is not set. Please add it to the configuration file.">>,
                               "Blow", delivered)
         ELSE pc' = "LocatingImage" /\ UNCHANGED notifications
    /\ UNCHANGED <<config, expanded_path, read_dir_result, dir_entries,
                   most_recent_image, image_read, dialogs, choice, requests, response,
                   api_result, clipboard, clipboard_result>>

\* let expanded_path = ...; let most_recent_image = fs::read_dir(..).expect(..)
\*     .filter_map(..).filter(..).max_by_key(..);
LocateImage ==
    /\ pc = "LocatingImage"
    /\ \E home \in HomeDirs : expanded_path' = ImageDirectoryExpanded(config[1], home)
    /\ \/ /\ read_dir_result' = "err"
          /\ pc' = "Panicked"
          /\ UNCHANGED <<dir_entries, most_recent_image>>
       \/ \E listing \in Listings :
            /\ read_dir_result' = "ok"
            /\ dir_entries' = listing
            /\ IF MetadataPanics(Candidates(listing))
               THEN pc' = "Panicked" /\ UNCHANGED most_recent_image
               ELSE pc' = "ImageLocated" /\ most_recent_image' = MaxByKey(Candidates(listing))
    /\ UNCHANGED <<config, image_read, dialogs, choice, requests, response,
                   api_result, clipboard, clipboard_result, notifications>>

\* The message does not name the directory
NoImagesBodyBare(dir) == <<"No images found">>

NoImagesBody(dir) == <<"No images found in directory: ">> \o dir

\* if let Some(image_entry) = most_recent_image { match fs::read(&image_path) ... }
\* else { "No images found" }
ReadImage ==
    /\ pc = "ImageLocated"
    /\ dir_entries' = <<>>
    /\ \E readOk, delivered \in BOOLEAN :
         IF most_recent_image = <<>>
         THEN /\ SendNotification("No images found", NoImagesBody(expanded_path), "Blow", delivered)
              /\ UNCHANGED image_read
         ELSE IF readOk
              THEN /\ image_read' = "ok"
                   /\ pc' = "AwaitingConfirmation"
                   /\ UNCHANGED notifications
              ELSE /\ image_read' = "err"
                   /\ SendNotification("Failed to read image", <<"read error">>, "Blow", delivered)
    /\ UNCHANGED <<config, expanded_path, read_dir_result, most_recent_image,
                   dialogs, choice, requests, response, api_result, clipboard,
                   clipboard_result>>

\* image_path.to_string_lossy() of image_entry.path()
ImagePathStr == Join(expanded_path, most_recent_image[1].name)

\* The answer No is taken as Yes
ConfirmIgnoringNo ==
    /\ pc = "AwaitingConfirmation"
    /\ \E answer \in {"Yes", "No"} :
         /\ dialogs' = Append(dialogs, [title |-> "Confirm Image Processing",
                                        message |-> ImagePathStr, default |-> "No"])
         /\ choice' = answer
         /\ pc' = "CallingApi"
    /\ UNCHANGED <<config, expanded_path, read_dir_result, dir_entries,
                   most_recent_image, image_read, requests, response, api_result,
                   clipboard, clipboard_result, notifications>>

\* let choice = message_box_yes_no(..); if choice == YesNo::No { ... return; }
Confirm ==
    /\ pc = "AwaitingConfirmation"
    /\ \E answer \in {"Yes", "No"}, delivered \in BOOLEAN :
         /\ dialogs' = Append(dialogs, [title |-> "Confirm Image Processing",
                                        message |-> ImagePathStr, default |-> "No"])
         /\ choice' = answer
         /\ IF answer = "No"
            THEN SendNotification("Cancelled request", <<"Images untouched">>, "Blow", delivered)
            ELSE pc' = "CallingApi" /\ UNCHANGED notifications
    /\ UNCHANGED <<config, expanded_path, read_dir_result, dir_entries,
                   most_recent_image, image_read, requests, response, api_result,
                   clipboard, clipboard_result>>

\* match call_claude_with_image(..).await { Ok(latex_result) => .., Err(e) => .. }
CallApi ==
    /\ pc = "CallingApi"
    /\ \E outcome \in NetworkOutcomes, delivered \in BOOLEAN :
         LET result == CallClaudeWithImage(outcome)
         IN  /\ requests' = Append(requests, Request(config[1].api_key, config[1].model,
                                                     ImagePathStr, config[1].prompt))
             /\ response' = outcome.response
             /\ api_result' = <<result>>
             /\ IF result.ok
                THEN pc' = "WritingClipboard" /\ UNCHANGED notifications
                ELSE SendNotification("API Call Failed",
                                      <<"Error calling Claude API: ">> \o result.err,
                                      "Blow", delivered)
    /\ UNCHANGED <<config, expanded_path, read_dir_result, dir_entries,
                   most_recent_image, image_read, dialogs, choice, clipboard,
                   clipboard_result>>

\* Success is announced whatever copy_to_clipboard returned
WriteClipboardAlwaysSuccess ==
    /\ pc = "WritingClipboard"
    /\ \E outcome \in ClipboardOutcomes, delivered \in BOOLEAN :
         /\ clipboard' = IF outcome = "ok" THEN Append(clipboard, api_result[1].val) ELSE clipboard
         /\ clipboard_result' = IF outcome = "ok" THEN "ok" ELSE "err"
         /\ SendNotification("LaTeX Conversion Complete",
                             <<"LaTeX has been copied to clipboard">>, "Glass", delivered)
    /\ UNCHANGED <<config, expanded_path, read_dir_result, dir_entries,
                   most_recent_image, image_read, dialogs, choice, requests, response,
                   api_result>>

\* if let Err(e) = copy_to_clipboard(&latex_result) { .. } else { .. }
WriteClipboard ==
    /\ pc = "WritingClipboard"
    /\ \E outcome \in ClipboardOutcomes, delivered \in BOOLEAN :
         /\ clipboard' = IF outcome = "ok" THEN Append(clipboard, api_result[1].val) ELSE clipboard
         /\ clipboard_result' = IF outcome = "ok" THEN "ok" ELSE "err"
         /\ IF outcome = "ok"
            THEN SendNotification("LaTeX Conversion Complete",
                                  <<"LaTeX has been copied to clipboard">>, "Glass", delivered)
            ELSE SendNotification("Error",
                                  <<"Failed to copy to clipboard: ">> \o ClipboardError(outcome),
                                  "Blow", delivered)
    /\ UNCHANGED <<config, expanded_path, read_dir_result, dir_entries,
                   most_recent_image, image_read, dialogs, choice, requests, response,
                   api_result>>

Next ==
    \/ LoadConfig
    \/ ValidateKey
    \/ LocateImage
    \/ ReadImage
    \/ Confirm
    \/ CallApi
    \/ WriteClipboard

Spec == Init /\ [][Next]_vars

---------------------------------------------------------------------------
(* Vocabulary of the properties, defined apart from the operators of the   *)
(* program above                                                           *)

IsBlank(s) == \A i \in DOMAIN s : s[i] \in Whitespace

Contains(s, sub) ==
    \E i \in 0..(Len(s) - Len(sub)) : SubSeq(s, i + 1, i + Len(sub)) = sub

HasImageExtension(entry) ==
    /\ entry.ok
    /\ Extension(entry.name) # <<>>
    /\ ToLowercase(Extension(entry.name)[1])
         \in { <<"p", "n", "g">>, <<"j", "p", "g">>, <<"j", "p", "e", "g">> }

ImageIndexes(listing) == {i \in DOMAIN listing : HasImageExtension(listing[i])}

HasStringText(item) == item.kind = "object" /\ item.text.tag = "str"

RECURSIVE Concat(_)
Concat(seqs) == IF seqs = <<>> THEN <<>> ELSE Head(seqs) \o Concat(Tail(seqs))

TextsInOrder(items) ==
    LET bearing == SelectSeq(items, HasStringText)
    IN  Concat([i \in DOMAIN bearing |-> bearing[i].text.s])

HttpSuccess == response # <<>> /\ response[1].status \in 200..299

IsFailureNotification(n) == n.sound = "Blow" /\ n.title # "LaTeX Conversion Complete"

NothingAfterLocate == dialogs = <<>> /\ requests = <<>> /\ clipboard = <<>>

---------------------------------------------------------------------------
\* C1: every run of main, on every path, ends after exactly one call of
\* send_notification: never more than one, and exactly one once main has ended.
C1_ExactlyOneNotification ==
    /\ Len(notifications) <= 1
    /\ pc \in Terminal => Len(notifications) = 1

\* C2: when read_dir fails, the run ends with one failure notification and
\* without a dialog, an API call or a clipboard write.
C2_UnreadableDirectoryNotified ==
    (read_dir_result = "err" /\ pc \in Terminal) =>
        /\ Len(notifications) = 1
        /\ IsFailureNotification(notifications[1])
        /\ NothingAfterLocate

\* C3: a loaded api_key that is empty or only whitespace ends the run with a
\* "Configuration Error" notification before the directory is scanned, the
\* dialog shown, the API called or the clipboard written; and a request is
\* only ever sent with a key that has a non-whitespace character.
C3_BlankKeyEndsRun ==
    /\ (config # <<>> /\ IsBlank(config[1].api_key) /\ pc # "ValidatingKey") =>
          /\ pc \in Terminal
          /\ Len(notifications) = 1
          /\ notifications[1].title = "Configuration Error"
          /\ read_dir_result = "none"
          /\ NothingAfterLocate
    /\ \A i \in DOMAIN requests :
          /\ config # <<>>
          /\ requests[i].api_key = config[1].api_key
          /\ ~IsBlank(requests[i].api_key)

C3_Witness ==
    /\ config # <<>>
    /\ config[1].api_key = <<" ", "\t">>
    /\ pc = "Done"
    /\ Len(notifications) = 1

\* C4: after the answer No the run ends with the "Cancelled request"
\* notification; the API is not called and the clipboard is not written.
C4_NoCancelsRun ==
    choice = "No" =>
        /\ pc \in Terminal
        /\ Len(notifications) = 1
        /\ notifications[1].title = "Cancelled request"
        /\ requests = <<>>
        /\ api_result = <<>>
        /\ clipboard = <<>>
        /\ clipboard_result = "none"

C4_Witness == choice = "No" /\ pc = "Done" /\ Len(dialogs) = 1

---------------------------------------------------------------------------
\* Changes of a listing in one entry without an image extension: the entry
\* removed, its modification time changed, or such an entry added
WithoutEntry(listing, i) == SubSeq(listing, 1, i - 1) \o SubSeq(listing, i + 1, Len(listing))

WithEntry(listing, k, e) == SubSeq(listing, 1, k) \o <<e>> \o SubSeq(listing, k + 1, Len(listing))

Addable(listing) ==
    LET names == {listing[i].name : i \in DOMAIN listing}
    IN  {x \in Entries : ~HasImageExtension(x) /\ (x.ok => x.name \notin names)}

\* The scan of `other` selects what main selected
SameSelection(other) ==
    /\ ~MetadataPanics(Candidates(other))
    /\ MaxByKey(Candidates(other)) = most_recent_image

OtherEntriesDoNotMatter(listing) ==
    LET others == DOMAIN listing \ ImageIndexes(listing)
    IN  /\ \A i \in others : SameSelection(WithoutEntry(listing, i))
        /\ \A i \in others : \A t \in 1..MaxTime :
              listing[i].ok => SameSelection([listing EXCEPT ![i].mtime = t])
        /\ \A k \in 0..Len(listing) : \A e \in Addable(listing) :
              SameSelection(WithEntry(listing, k, e))

\* C5: the selected candidate is an entry of the listing whose extension is,
\* case-insensitively, png, jpg or jpeg and whose modification time is the
\* maximum over all such entries (one is selected whenever there is one); and
\* removing, adding or re-timing an entry with another extension leaves the
\* selection as it is.
C5_MostRecentImageSelected ==
    pc = "ImageLocated" =>
        LET images == ImageIndexes(dir_entries)
        IN  /\ images # {} => most_recent_image # <<>>
            /\ most_recent_image # <<>> =>
                 \E i \in images :
                    /\ dir_entries[i] = most_recent_image[1]
                    /\ \A j \in images : dir_entries[j].mtime <= dir_entries[i].mtime
            /\ OtherEntriesDoNotMatter(dir_entries)

C5_Witness ==
    /\ pc = "ImageLocated"
    /\ Len(dir_entries) = 2
    /\ most_recent_image # <<>>
    /\ most_recent_image[1].name = <<"b", ".", "J", "P", "G">>
    /\ \E i \in DOMAIN dir_entries :
         /\ dir_entries[i].name = <<"d", ".", "t", "x", "t">>
         /\ dir_entries[i].mtime > most_recent_image[1].mtime

\* C6: when the listing is empty or holds no entry with extension png, jpg or
\* jpeg, the selection is None, and from there the run ends with the single
\* notification "No images found" naming the directory, with no dialog, no
\* API call and no clipboard write.
C6_NoImageFound ==
    /\ [][(pc = "LocatingImage" /\ read_dir_result' = "ok" /\ ImageIndexes(dir_entries') = {})
            => (pc' = "ImageLocated" /\ most_recent_image' = <<>>)]_vars
    /\ [][(pc = "ImageLocated" /\ most_recent_image = <<>>)
            => /\ pc' \in Terminal
               /\ Len(notifications') = 1
               /\ notifications'[1].title = "No images found"
               /\ IsFailureNotification(notifications'[1])
               /\ expanded_path' # <<>>
               /\ Contains(notifications'[1].body, expanded_path')
               /\ dialogs' = <<>> /\ requests' = <<>> /\ clipboard' = <<>>]_vars

C6_Witness ==
    /\ pc = "Done"
    /\ read_dir_result = "ok"
    /\ most_recent_image = <<>>
    /\ Len(notifications) = 1
    /\ notifications[1].title = "No images found"

---------------------------------------------------------------------------
TextItem(s) == [kind |-> "object", text |-> [tag |-> "str", s |-> s]]

ContentArrayReceived ==
    HttpSuccess /\ response[1].body.json /\ response[1].body.content.tag = "array"

\* C7: on an HTTP success response whose JSON body has a content array, the
\* call returns the texts of the items that have a string text field, joined
\* in array order, the other items being skipped; for the content
\* [{text:"A"},{text:"B"}] it returns "AB".
C7_TextsJoinedInOrder ==
    ContentArrayReceived =>
        /\ api_result = <<Ok(TextsInOrder(response[1].body.content.items))>>
        /\ response[1].body.content.items = <<TextItem(<<"A">>), TextItem(<<"B">>)>>
             => api_result[1].val = <<"A", "B">>

C7_Witness ==
    /\ ContentArrayReceived
    /\ response[1].body.content.items = <<TextItem(<<"A">>), TextItem(<<"B">>)>>
    /\ api_result # <<>>
    /\ api_result[1].ok
    /\ api_result[1].val = <<"A", "B">>

\* C8: on an HTTP success response with a JSON body, the call fails with the
\* response-format error whenever the content field is missing or not an
\* array, and also whenever the array is empty or none of its items has a
\* text field; then the clipboard is not written and the run ends with a
\* failure notification.
C8_NoTextIsFormatError ==
    (/\ HttpSuccess
     /\ response[1].body.json
     /\ \/ response[1].body.content.tag # "array"
        \/ \A i \in DOMAIN response[1].body.content.items :
              ~HasStringText(response[1].body.content.items[i]))
    => /\ api_result = <<Err(<<"Invalid response format">>)>>
       /\ pc \in Terminal
       /\ clipboard = <<>>
       /\ Len(notifications) = 1
       /\ IsFailureNotification(notifications[1])

\* C9: on an HTTP status that is not a success, the call returns an error
\* whose message contains the status code (for 429 the text "429"); the run
\* ends with the "API Call Failed" notification carrying that message, and
\* the clipboard is not written.
C9_StatusInErrorMessage ==
    (response # <<>> /\ response[1].status \notin 200..299) =>
        /\ api_result # <<>>
        /\ ~api_result[1].ok
        /\ Contains(api_result[1].err, Digits(response[1].status))
        /\ response[1].status = 429 => Contains(api_result[1].err, <<"4", "2", "9">>)
        /\ pc \in Terminal
        /\ Len(notifications) = 1
        /\ notifications[1].title = "API Call Failed"
        /\ Contains(notifications[1].body, api_result[1].err)
        /\ clipboard = <<>>
        /\ clipboard_result = "none"

C9_Witness ==
    /\ response # <<>>
    /\ response[1].status = 429
    /\ pc = "Done"
    /\ Len(notifications) = 1

---------------------------------------------------------------------------
StageRank(stage) ==
    CASE stage = "LoadingConfig"        -> 1
      [] stage = "ValidatingKey"        -> 2
      [] stage = "LocatingImage"        -> 3
      [] stage = "ImageLocated"         -> 4
      [] stage = "AwaitingConfirmation" -> 5
      [] stage = "CallingApi"           -> 6
      [] stage = "WritingClipboard"     -> 7
      [] stage \in Terminal             -> 8

IsSuccessNotification(n) == n.title = "LaTeX Conversion Complete"

StepsInOrder ==
    /\ Len(dialogs) <= 1
    /\ Len(requests) <= 1
    /\ Len(clipboard) <= 1
    /\ dialogs # <<>> => (most_recent_image # <<>> /\ image_read = "ok")
    /\ requests # <<>> =>
          /\ config # <<>>
          /\ ~IsBlank(config[1].api_key)
          /\ most_recent_image # <<>>
          /\ dialogs # <<>>
          /\ choice = "Yes"
    /\ (api_result # <<>> \/ response # <<>>) => requests # <<>>
    /\ clipboard_result # "none" => (api_result # <<>> /\ api_result[1].ok)
    /\ clipboard # <<>> =>
          /\ api_result # <<>>
          /\ api_result[1].ok
          /\ clipboard = <<api_result[1].val>>
    /\ \A i \in DOMAIN notifications :
          IsSuccessNotification(notifications[i]) =>
              (clipboard_result = "ok" /\ clipboard # <<>>)
    /\ clipboard_result = "err" =>
          /\ clipboard = <<>>
          /\ Len(notifications) = 1
          /\ IsFailureNotification(notifications[1])
          /\ notifications[1].title = "Error"

\* C10: the steps of a run happen only in the order load config, validate
\* key, locate image, confirm, call API, write clipboard, each at most once:
\* the API is called at most once and only after the key was validated, an
\* image selected and Yes answered; the clipboard is written at most once and
\* only with the result the API call returned; the success notification
\* appears only after the clipboard write succeeded, and a clipboard failure
\* yields the failure notification instead.
C10_LinearOrder ==
    /\ []StepsInOrder
    /\ [][StageRank(pc') > StageRank(pc)]_vars

C10_Witness ==
    /\ clipboard_result = "err"
    /\ pc = "Done"
    /\ Len(requests) = 1
    /\ api_result # <<>>
    /\ api_result[1].ok

====
